---- MODULE Spec2Model ----
(***************************************************************************)
(* The store-closure dashboard: utils.load_data under st.cache_data, the    *)
(* script runs of pages/1_Store_Closure_Analysis.py (load, categorical     *)
(* conversion, cluster metrics, Overview table, map, Store Details filter  *)
(* and search), the feature tables of pages/3_Methodology.py, and rmse and *)
(* the regression forecast of pages/2_Forecast_Analysis.py.                *)
(*                                                                         *)
(* A table is a record [columns, rows]: columns is the ordered list of     *)
(* column names and every row is a tuple aligned with it.  Text cells are  *)
(* sequences of one-character strings, labels are strings, cluster ids are *)
(* integers.  NaN is pandas' missing value.                                *)
(***************************************************************************)
EXTENDS Integers, Sequences, FiniteSets, TLC

VARIABLES file, pc, err, df, total_stores, cluster_count, cluster_pct,
          at_risk_count, at_risk_pct, cluster_filter, search_text,
          filtered_df, detail_df, shown,
          page, cache, reads,
          cluster_mean, map_view,
          meth_mean, meth_median,
          rm_pred, rm_true, rm_out, sample_yoy, pred_from_model

\* the outputs of the Overview and Geographic Analysis tabs of page 1
viewVars == <<cluster_mean, map_view>>

\* the two tables of the Methodology page
methVars == <<meth_mean, meth_median>>

\* the Forecast page: the arguments and result of rmse, the model's input
\* and prediction
fcVars == <<rm_pred, rm_true, rm_out, sample_yoy, pred_from_model>>

vars == <<file, pc, err, df, total_stores, cluster_count, cluster_pct,
          at_risk_count, at_risk_pct, cluster_filter, search_text,
          filtered_df, detail_df, shown, page, cache, reads,
          viewVars, methVars, fcVars>>

\* ------------------------------------------------------------------ bounds
MaxRows == 2
MaxTextLen == 1
MaxSeriesLen == 2

\* rows of a file that has the feature and location columns
MaxFeatRows == 3

\* --------------------------------------------------------------- constants
NaN == "NaN"
NoError == "NoError"

get_cluster_order == <<"Best stores", "Middle Tier", "Redundant", "Weaker Store">>

cluster_order == get_cluster_order

cluster_name_map_swapped ==
    [i \in 0..3 |-> CASE i = 0 -> "Weaker Store"
                      [] i = 1 -> "Middle Tier"
                      [] i = 2 -> "Best stores"
                      [] i = 3 -> "Redundant"]

cluster_name_map ==
    [i \in 0..3 |-> CASE i = 0 -> "Middle Tier"
                      [] i = 1 -> "Weaker Store"
                      [] i = 2 -> "Best stores"
                      [] i = 3 -> "Redundant"]

at_risk_clusters_wrong == <<"Redundant", "Middle Tier">>

at_risk_clusters == <<"Redundant", "Weaker Store">>

Categories == {cluster_order[i] : i \in 1..Len(cluster_order)}

\* ----------------------------------------------------------------- strings
\* str.lower() on the characters that occur in the model's data
Lower(c) ==
    CASE c = "B" -> "b" [] c = "C" -> "c" [] c = "M" -> "m" [] c = "N" -> "n"
      [] c = "R" -> "r" [] c = "S" -> "s" [] c = "T" -> "t" [] c = "W" -> "w"
      [] OTHER -> c

LowerStr(s) == [i \in 1..Len(s) |-> Lower(s[i])]

\* str(label) of a cluster_label cell; str(nan) is "nan"
LabelStr(v) ==
    CASE v = "Best stores"  -> <<"B","e","s","t"," ","s","t","o","r","e","s">>
      [] v = "Middle Tier"  -> <<"M","i","d","d","l","e"," ","T","i","e","r">>
      [] v = "Redundant"    -> <<"R","e","d","u","n","d","a","n","t">>
      [] v = "Weaker Store" -> <<"W","e","a","k","e","r"," ","S","t","o","r","e">>
      [] v = "Closed"       -> <<"C","l","o","s","e","d">>
      [] OTHER              -> <<"n","a","n">>

\* str(id) of a cluster cell (one decimal digit in the model's data)
DigitStr(n) ==
    CASE n = 0 -> <<"0">> [] n = 1 -> <<"1">> [] n = 2 -> <<"2">>
      [] n = 3 -> <<"3">> [] n = 4 -> <<"4">> [] n = 5 -> <<"5">>
      [] n = 6 -> <<"6">> [] n = 7 -> <<"7">> [] n = 8 -> <<"8">>
      [] OTHER -> <<"9">>

RECURSIVE IntStr(_)
\* str(n) of an integer cell
IntStr(n) ==
    IF n < 0 THEN <<"-">> \o IntStr(-n)
    ELSE IF n < 10 THEN DigitStr(n)
    ELSE IntStr(n \div 10) \o DigitStr(n % 10)

\* the columns whose cells are numbers
NumericCols ==
    {"cluster", "latitude", "longitude", "nearest_neighbor_miles",
     "has_next_gen", "is_flagship", "num_omni_features",
     "stores_within_3_miles", "stores_within_6_miles"}

\* r.astype(str): the string form of the cell of column col
StrCell(col, v) ==
    IF col \in NumericCols THEN IntStr(v)
    ELSE IF col = "cluster_label" THEN LabelStr(v)
    ELSE v

\* literal substring test, t in s
Contains(s, t) ==
    \E j \in 0..(Len(s) - Len(t)) : \A k \in 1..Len(t) : s[j + k] = t[k]

\* ------------------------------------------------------- regular expressions
\* re.compile(p) succeeds: over the model's alphabet a pattern is a list of
\* atoms (a literal or '.'), each optionally followed by '*'.  An unclosed
\* '(' ("missing )"), a leading '*' ("nothing to repeat") and '**'
\* ("multiple repeat") raise re.error.
ReValid(p) ==
    \A i \in 1..Len(p) :
        /\ p[i] # "("
        /\ p[i] = "*" => (i > 1 /\ p[i - 1] # "*")

\* one atom against one character under re.IGNORECASE
AtomMatch(a, c) == a = "." \/ Lower(a) = Lower(c)

RECURSIVE ReMatchHere(_, _, _, _)
\* p[i..] matches a prefix of s[j..]
ReMatchHere(p, i, s, j) ==
    IF i > Len(p) THEN TRUE
    ELSE IF i < Len(p) /\ p[i + 1] = "*"
         THEN \E k \in 0..(Len(s) - j + 1) :
                  /\ \A m \in j..(j + k - 1) : AtomMatch(p[i], s[m])
                  /\ ReMatchHere(p, i + 2, s, j + k)
         ELSE /\ j <= Len(s)
              /\ AtomMatch(p[i], s[j])
              /\ ReMatchHere(p, i + 1, s, j + 1)

\* re.search(p, s, re.IGNORECASE) finds a match
ReSearch(p, s) == \E j \in 1..(Len(s) + 1) : ReMatchHere(p, 1, s, j)

\* ------------------------------------------------------------------ tables
ColIndex(cols, name) == CHOOSE i \in 1..Len(cols) : cols[i] = name

HasCol(t, name) == \E i \in 1..Len(t.columns) : t.columns[i] = name

Cell(t, row, name) == row[ColIndex(t.columns, name)]

\* c.lower().strip() on the headers that occur in the model's files
NormCol(c) ==
    CASE c = "City" -> "city"
      [] c = " Cluster_Label" -> "cluster_label"
      [] c = "CLUSTER " -> "cluster"
      [] OTHER -> c

RECURSIVE SelectRows(_, _)
\* boolean-mask indexing t[mask]: the rows whose mask entry is TRUE, in order
SelectRows(rows, mask) ==
    IF rows = <<>> THEN <<>>
    ELSE IF Head(mask) THEN <<Head(rows)>> \o SelectRows(Tail(rows), Tail(mask))
         ELSE SelectRows(Tail(rows), Tail(mask))

EmptyTable == [columns |-> <<>>, rows |-> <<>>]

\* ---------------------------------------------------------------- load_data
load_data(f) ==
    LET cols == [i \in 1..Len(f.header) |-> NormCol(f.header[i])]
        t0   == [columns |-> cols, rows |-> f.rows]
    IN  IF ~HasCol(t0, "cluster_label") /\ HasCol(t0, "cluster")
        THEN [columns |-> Append(cols, "cluster_label"),
              rows |-> [i \in 1..Len(f.rows) |->
                          LET id == Cell(t0, f.rows[i], "cluster")
                          IN  Append(f.rows[i],
                                     IF id \in DOMAIN cluster_name_map
                                     THEN cluster_name_map[id] ELSE NaN)]]
        ELSE t0

\* ------------------------------------------------------------------ inputs
Cities == {<<"a", "n">>, <<"a", "(">>}

FileLabels == Categories \cup {"Closed", NaN}

FileIds == {0, 1, 2, 3, 7}

TextChars == {"N", ".", "*", "("}

Texts == UNION {[1..n -> TextChars] : n \in 0..MaxTextLen}

SeqsUpTo(S, n) == UNION {[1..k -> S] : k \in 0..n}

\* the files closure_strategy.csv can be: unreadable, or a header and rows
\* with a label column, with a numeric cluster column, or with neither
UnreadableFiles == {[readable |-> FALSE, header |-> <<>>, rows |-> <<>>]}

LabelFiles ==
    {[readable |-> TRUE, header |-> <<"City", " Cluster_Label">>, rows |-> r] :
        r \in SeqsUpTo(Cities \X FileLabels, MaxRows)}

ClusterFiles ==
    {[readable |-> TRUE, header |-> <<"City", "CLUSTER ">>, rows |-> r] :
        r \in SeqsUpTo(Cities \X FileIds, MaxRows)}

BareFiles ==
    {[readable |-> TRUE, header |-> <<"City">>, rows |-> r] :
        r \in SeqsUpTo({<<c>> : c \in Cities}, MaxRows)}

\* ----------------------------------------------------------- page 1 helpers
\* pd.Categorical(values, categories=cluster_order): a value outside the
\* categories becomes NaN
Categorical(v) == IF v \in Categories THEN v ELSE NaN

\* value_counts().reindex(cluster_order).fillna(0).astype(int): NaN is not counted
value_counts(t) ==
    [c \in Categories |->
        Cardinality({i \in 1..Len(t.rows) : Cell(t, t.rows[i], "cluster_label") = c})]

RECURSIVE SumLoc(_, _)
\* cluster_count.loc[names].sum()
SumLoc(names, counts) ==
    IF names = <<>> THEN 0
    ELSE counts[Head(names)] + SumLoc(Tail(names), counts)

\* numpy round to nearest, ties to even, of num/den
RoundHalfEven(num, den) ==
    LET q == num \div den
        r == num % den
    IN  IF 2 * r < den THEN q
        ELSE IF 2 * r > den THEN q + 1
        ELSE IF q % 2 = 0 THEN q ELSE q + 1

\* (n / total * 100).round(1), in tenths of a percent; 0 / 0 is nan and
\* raises nothing (pandas and numpy division)
Pct(n, total) ==
    IF total = 0 THEN [nan |-> TRUE, tenths |-> 0]
    ELSE [nan |-> FALSE, tenths |-> RoundHalfEven(n * 1000, total)]

\* the cluster comparison letting rows without a label through
ClusterMask_NaNPasses(t, choice) ==
    [i \in 1..Len(t.rows) |->
        \/ Cell(t, t.rows[i], "cluster_label") = choice
        \/ Cell(t, t.rows[i], "cluster_label") = NaN]

\* detail_df["cluster_label"] == cluster_filter, as a boolean mask
ClusterMask(t, choice) ==
    [i \in 1..Len(t.rows) |-> Cell(t, t.rows[i], "cluster_label") = choice]

\* r.astype(str).str.contains(text, case=False).any() for one row
RowMatches(t, row, text) ==
    \E i \in 1..Len(t.columns) : ReSearch(text, StrCell(t.columns[i], row[i]))

\* detail_df.apply(lambda r: ..., axis=1), as a boolean mask
SearchMask(t, text) == [i \in 1..Len(t.rows) |-> RowMatches(t, t.rows[i], text)]

\* ------------------------------------------------------------------- state
NoCount == [c \in Categories |-> 0]

NoPct == [nan |-> FALSE, tenths |-> 0]

\* a table or view that the run has not produced yet
NoTable == [index |-> <<>>, rows |-> <<>>]

NoView == [kind |-> "none", traces |-> <<>>]

NoCache == [hit |-> FALSE, value |-> EmptyTable]

\* the script variables at the top of a run
Fresh ==
    /\ pc = "start"
    /\ err = NoError
    /\ df = EmptyTable
    /\ total_stores = 0
    /\ cluster_count = NoCount
    /\ cluster_pct = [c \in Categories |-> NoPct]
    /\ at_risk_count = 0
    /\ at_risk_pct = NoPct
    /\ cluster_filter = "All"
    /\ search_text = <<>>
    /\ filtered_df = EmptyTable
    /\ detail_df = EmptyTable
    /\ shown = 0
    /\ cluster_mean = NoTable
    /\ map_view = NoView
    /\ meth_mean = NoTable
    /\ meth_median = NoTable

\* the Forecast page not being run
FcIdle ==
    /\ rm_pred = <<>>
    /\ rm_true = <<>>
    /\ rm_out = [kind |-> "none"]
    /\ sample_yoy = 0
    /\ pred_from_model = 0

\* a new process (empty cache) opening the Store Closure page
Init ==
    /\ \/ file \in UnreadableFiles
       \/ file \in LabelFiles
       \/ file \in ClusterFiles
       \/ file \in BareFiles
    /\ page = "closure"
    /\ cache = NoCache
    /\ reads = 0
    /\ Fresh
    /\ FcIdle

\* an exception that leaves the script: the run ends where it was raised
Raise(e) ==
    /\ pc' = "crashed"
    /\ err' = e

\* utils.py lines 57-72 under @st.cache_data: a hit returns a copy of the
\* stored table and runs nothing; a miss runs the body, and stores its result
\* only when it returns (an exception is not cached)
CachedLoad ==
    IF cache.hit
    THEN /\ df' = cache.value
         /\ pc' = "loaded"
         /\ UNCHANGED <<err, cache, reads>>
    ELSE IF file.readable
    THEN /\ df' = load_data(file)
         /\ cache' = [hit |-> TRUE, value |-> df']
         /\ reads' = reads + 1
         /\ pc' = "loaded"
         /\ UNCHANGED err
    ELSE /\ Raise("FileNotFoundError")
         /\ UNCHANGED <<df, cache, reads>>

\* page 1 line 19, page 3 line 95: df = load_data("closure_strategy.csv")
Load ==
    /\ pc = "start"
    /\ CachedLoad
    /\ UNCHANGED <<file, total_stores, cluster_count, cluster_pct, at_risk_count,
                   at_risk_pct, cluster_filter, search_text, filtered_df,
                   detail_df, shown, page, viewVars, methVars, fcVars>>

\* the overwrite acting on the cached table itself, as it would if load_data
\* handed out the stored object and not a copy
Categorize_InPlace ==
    /\ pc = "loaded"
    /\ page = "closure"
    /\ IF HasCol(df, "cluster_label")
       THEN /\ df' = [df EXCEPT !.rows =
                        [i \in 1..Len(df.rows) |->
                            [df.rows[i] EXCEPT ![ColIndex(df.columns, "cluster_label")] =
                                Categorical(@)]]]
            /\ cache' = [cache EXCEPT !.value = df']
            /\ pc' = "categorized"
            /\ UNCHANGED err
       ELSE /\ Raise("KeyError")
            /\ UNCHANGED <<df, cache>>
    /\ UNCHANGED <<file, total_stores, cluster_count, cluster_pct, at_risk_count,
                   at_risk_pct, cluster_filter, search_text, filtered_df,
                   detail_df, shown>>
    /\ UNCHANGED <<page, reads, viewVars, methVars, fcVars>>

\* line 23: df["cluster_label"] = pd.Categorical(df["cluster_label"], ...)
Categorize ==
    /\ pc = "loaded"
    /\ page = "closure"
    /\ IF HasCol(df, "cluster_label")
       THEN /\ df' = [df EXCEPT !.rows =
                        [i \in 1..Len(df.rows) |->
                            [df.rows[i] EXCEPT ![ColIndex(df.columns, "cluster_label")] =
                                Categorical(@)]]]
            /\ pc' = "categorized"
            /\ UNCHANGED err
       ELSE /\ Raise("KeyError")
            /\ UNCHANGED df
    /\ UNCHANGED <<file, total_stores, cluster_count, cluster_pct, at_risk_count,
                   at_risk_pct, cluster_filter, search_text, filtered_df,
                   detail_df, shown>>
    /\ UNCHANGED <<page, cache, reads, viewVars, methVars, fcVars>>

\* lines 25-31: totals, per-cluster counts and percentages, at-risk figures
Metrics ==
    /\ pc = "categorized"
    /\ total_stores' = Len(df.rows)
    /\ cluster_count' = value_counts(df)
    /\ cluster_pct' = [c \in Categories |-> Pct(cluster_count'[c], total_stores')]
    /\ at_risk_count' = SumLoc(at_risk_clusters, cluster_count')
    /\ at_risk_pct' = Pct(at_risk_count', total_stores')
    /\ pc' = "metrics"
    /\ UNCHANGED <<file, err, df, cluster_filter, search_text, filtered_df,
                   detail_df, shown>>
    /\ UNCHANGED <<page, cache, reads, viewVars, methVars, fcVars>>

\* ------------------------------------------------------- per-cluster tables
\* a number shown in a table, as the fraction num / den, or NaN
NaNVal == [nan |-> TRUE, num |-> 0, den |-> 1]

Val(num, den) == [nan |-> FALSE, num |-> num, den |-> den]

\* lines 147-154 (page 3 lines 98-105)
cluster_features ==
    <<"has_next_gen", "is_flagship", "num_omni_features",
      "nearest_neighbor_miles", "stores_within_3_miles", "stores_within_6_miles">>

RECURSIVE ColsIn(_, _)
\* [c for c in names if c in t.columns]
ColsIn(names, t) ==
    IF names = <<>> THEN <<>>
    ELSE (IF HasCol(t, Head(names)) THEN <<Head(names)>> ELSE <<>>)
         \o ColsIn(Tail(names), t)

SeqRange(q) == {q[i] : i \in 1..Len(q)}

\* the rows of one group of groupby("cluster_label"); a NaN label is in no group
GroupRows(t, c) == SelectRows(t.rows, ClusterMask(t, c))

RECURSIVE SumCol(_, _, _)
SumCol(t, rows, f) ==
    IF rows = <<>> THEN 0
    ELSE Cell(t, Head(rows), f) + SumCol(t, Tail(rows), f)

\* mean().round(d) of column f over rows, with scale = 10 ** d; NaN for an
\* empty group
MeanRound(t, rows, f, scale) ==
    IF rows = <<>> THEN NaNVal
    ELSE Val(RoundHalfEven(SumCol(t, rows, f) * scale, Len(rows)), scale)

\* the k-th smallest value of column f over rows
Kth(t, rows, f, k) ==
    CHOOSE v \in {Cell(t, rows[i], f) : i \in 1..Len(rows)} :
        /\ Cardinality({i \in 1..Len(rows) : Cell(t, rows[i], f) < v}) < k
        /\ k <= Cardinality({i \in 1..Len(rows) : Cell(t, rows[i], f) <= v})

\* median().round(3) of column f over rows
MedianRound(t, rows, f) ==
    LET n == Len(rows)
    IN  IF n = 0 THEN NaNVal
        ELSE IF n % 2 = 1 THEN Val(Kth(t, rows, f, (n + 1) \div 2) * 1000, 1000)
        ELSE Val((Kth(t, rows, f, n \div 2) + Kth(t, rows, f, n \div 2 + 1)) * 500, 1000)

\* the group keys of groupby on a column of strings, sorted
SortedLabels == <<"Best stores", "Closed", "Middle Tier", "Redundant", "Weaker Store">>

RECURSIVE KeysIn(_, _)
KeysIn(keys, t) ==
    IF keys = <<>> THEN <<>>
    ELSE (IF \E i \in 1..Len(t.rows) : Cell(t, t.rows[i], "cluster_label") = Head(keys)
          THEN <<Head(keys)>> ELSE <<>>)
         \o KeysIn(Tail(keys), t)

\* reindex(order): the rows of tbl in the order given, all-NaN where tbl has
\* no such key
Reindex(tbl, order, feats) ==
    [index |-> order,
     rows  |-> [i \in 1..Len(order) |->
                  IF \E j \in 1..Len(tbl.index) : tbl.index[j] = order[i]
                  THEN tbl.rows[CHOOSE j \in 1..Len(tbl.index) : tbl.index[j] = order[i]]
                  ELSE [f \in SeqRange(feats) |-> NaNVal]]]

\* groupby("cluster_label")[feats].mean().round(d) over the group keys given
GroupMean(t, keys, feats, scale) ==
    [index |-> keys,
     rows  |-> [i \in 1..Len(keys) |->
                  [f \in SeqRange(feats) |-> MeanRound(t, GroupRows(t, keys[i]), f, scale)]]]

GroupMedian(t, keys, feats) ==
    [index |-> keys,
     rows  |-> [i \in 1..Len(keys) |->
                  [f \in SeqRange(feats) |-> MedianRound(t, GroupRows(t, keys[i]), f)]]]

\* a boolean column left as the mean fraction
ToPercent_Unscaled(v) == v

\* lines 176-179: cluster_mean[col] * 100
ToPercent(v) == IF v.nan THEN v ELSE Val(v.num * 100, v.den)

\* the omni column keeping the rounded mean of the count
OmniPct_Mean(t, rows) == MeanRound(t, rows, "num_omni_features", 100)

\* lines 182-184 for one group: (x["num_omni_features"] > 0).mean() * 100, not
\* rounded; a category without rows has no entry and is NaN after reindex
OmniPct(t, rows) ==
    IF rows = <<>> THEN NaNVal
    ELSE Val(100 * Len(SelectRows(rows,
                          [i \in 1..Len(rows) |-> Cell(t, rows[i], "num_omni_features") > 0])),
             Len(rows))

\* lines 168-185: the table of the Overview tab
OverviewTable(t, feats) ==
    LET means == Reindex(GroupMean(t, cluster_order, feats, 100), cluster_order, feats)
    IN  [means EXCEPT !.rows =
            [i \in 1..Len(cluster_order) |->
                [f \in SeqRange(feats) |->
                    IF f \in {"has_next_gen", "is_flagship"}
                    THEN ToPercent(means.rows[i][f])
                    ELSE IF f = "num_omni_features"
                    THEN OmniPct(t, GroupRows(t, cluster_order[i]))
                    ELSE means.rows[i][f]]]]

\* lines 147-202 (tab 1).  With no rows groupby(...).apply(...) returns, in
\* the pandas releases that return an empty frame there, something the
\* column assignment at line 185 rejects with ValueError; in the others the
\* column is all NaN: both outcomes are possible.
Overview ==
    /\ pc = "metrics"
    /\ LET feats == ColsIn(cluster_features, df)
       IN  \/ /\ feats = <<>>
              /\ cluster_mean' = NoTable
              /\ pc' = "overview"
              /\ UNCHANGED err
           \/ /\ feats # <<>>
              /\ cluster_mean' = OverviewTable(df, feats)
              /\ pc' = "overview"
              /\ UNCHANGED err
           \/ /\ "num_omni_features" \in SeqRange(feats)
              /\ df.rows = <<>>
              /\ Raise("ValueError")
              /\ UNCHANGED cluster_mean
    /\ UNCHANGED <<file, df, total_stores, cluster_count, cluster_pct,
                   at_risk_count, at_risk_pct, cluster_filter, search_text,
                   filtered_df, detail_df, shown, page, cache, reads,
                   map_view, methVars, fcVars>>

\* the values the multiselect of tab 2 can return; at_risk_clusters is its
\* default
MapSelections == {at_risk_clusters, <<>>, cluster_order}

RECURSIVE TracesOf(_, _)
\* lines 220-222: the selected clusters that have rows, in selection order
TracesOf(sel, t) ==
    IF sel = <<>> THEN <<>>
    ELSE (IF GroupRows(t, Head(sel)) # <<>> THEN <<Head(sel)>> ELSE <<>>)
         \o TracesOf(Tail(sel), t)

\* line 240: the columns every trace reads for its hover text
customdata_cols == <<"address", "city", "state", "nearest_neighbor_miles">>

\* lines 204-271 (tab 2): the map when latitude and longitude exist, the
\* warning otherwise.  A trace indexes the four customdata columns, which
\* raises KeyError when one is missing.
MapTab ==
    /\ pc = "overview"
    /\ IF HasCol(df, "latitude") /\ HasCol(df, "longitude")
       THEN \E sel \in MapSelections :
               LET traces == TracesOf(sel, df)
               IN  IF traces # <<>> /\ ColsIn(customdata_cols, df) # customdata_cols
                   THEN /\ Raise("KeyError")
                        /\ UNCHANGED map_view
                   ELSE /\ map_view' = [kind |-> "map", traces |-> traces]
                        /\ pc' = "map"
                        /\ UNCHANGED err
       ELSE /\ map_view' = [kind |-> "warning", traces |-> <<>>]
            /\ pc' = "map"
            /\ UNCHANGED err
    /\ UNCHANGED <<file, df, total_stores, cluster_count, cluster_pct,
                   at_risk_count, at_risk_pct, cluster_filter, search_text,
                   filtered_df, detail_df, shown, page, cache, reads,
                   cluster_mean, methVars, fcVars>>

\* lines 292-295 for the widget values choice and text
ApplyClusterFilter(choice, text) ==
    /\ cluster_filter' = choice
    /\ search_text' = text
    /\ filtered_df' = IF choice # "All"
                      THEN [df EXCEPT !.rows = SelectRows(df.rows, ClusterMask(df, choice))]
                      ELSE df
    /\ pc' = "filtered"
    /\ UNCHANGED <<file, err, df, total_stores, cluster_count, cluster_pct,
                   at_risk_count, at_risk_pct, detail_df, shown>>
    /\ UNCHANGED <<page, cache, reads, viewVars, methVars, fcVars>>

\* lines 279-295: the two widgets are read, then the cluster filter is applied
\* to a copy of df
ClusterFilter ==
    /\ pc = "map"
    /\ \E choice \in {"All"} \cup Categories, text \in Texts :
          ApplyClusterFilter(choice, text)

\* lines 279-295 in a run where the user has not touched the widgets: the
\* selectbox returns options[0] and the text input its value ""
ClusterFilterFirst ==
    /\ pc = "map"
    /\ ApplyClusterFilter("All", <<>>)

\* the search with its mask applied one position off
filterBySearch_Shifted(t, text) ==
    IF text # <<>>
    THEN [t EXCEPT !.rows =
            SelectRows(t.rows,
                       [i \in 1..Len(t.rows) |->
                           RowMatches(t, t.rows[(i % Len(t.rows)) + 1], text)])]
    ELSE t

\* the search without its guard, an empty text matching nothing
filterBySearch_NoGuard(t, text) ==
    [t EXCEPT !.rows =
        SelectRows(t.rows,
                   [i \in 1..Len(t.rows) |->
                       text # <<>> /\ RowMatches(t, t.rows[i], text)])]

\* lines 297-303 on table t: the rows kept by the text search
filterBySearch(t, text) ==
    IF text # <<>>
    THEN [t EXCEPT !.rows = SelectRows(t.rows, SearchMask(t, text))]
    ELSE t

\* the search applied to df instead of the cluster-filtered detail_df
Search_FromDf ==
    /\ pc = "filtered"
    /\ \/ /\ search_text = <<>> \/ ReValid(search_text) \/ filtered_df.rows = <<>>
          /\ detail_df' = IF search_text # <<>>
                          THEN filterBySearch(df, search_text)
                          ELSE filtered_df
          /\ pc' = "searched"
          /\ UNCHANGED err
       \/ /\ search_text # <<>> /\ ~ReValid(search_text)
          /\ Raise("re.error")
          /\ UNCHANGED detail_df
    /\ UNCHANGED <<file, df, total_stores, cluster_count, cluster_pct,
                   at_risk_count, at_risk_pct, cluster_filter, search_text,
                   filtered_df, shown>>
    /\ UNCHANGED <<page, cache, reads, viewVars, methVars, fcVars>>

\* lines 297-303.  str.contains compiles the text as a regular expression
\* (regex=True is the default) and re.error leaves the script.  On a table
\* with no rows DataFrame.apply does not call the lambda on any row and,
\* depending on the pandas release, either swallows the error of its trial
\* call or lets it through: both outcomes are possible.
Search ==
    /\ pc = "filtered"
    /\ \/ /\ search_text = <<>> \/ ReValid(search_text) \/ filtered_df.rows = <<>>
          /\ detail_df' = filterBySearch(filtered_df, search_text)
          /\ pc' = "searched"
          /\ UNCHANGED err
       \/ /\ search_text # <<>> /\ ~ReValid(search_text)
          /\ Raise("re.error")
          /\ UNCHANGED detail_df
    /\ UNCHANGED <<file, df, total_stores, cluster_count, cluster_pct,
                   at_risk_count, at_risk_pct, cluster_filter, search_text,
                   filtered_df, shown>>
    /\ UNCHANGED <<page, cache, reads, viewVars, methVars, fcVars>>

\* lines 318-321: "Showing N stores" and the table
Show ==
    /\ pc = "searched"
    /\ shown' = Len(detail_df.rows)
    /\ pc' = "done"
    /\ UNCHANGED <<file, err, df, total_stores, cluster_count, cluster_pct,
                   at_risk_count, at_risk_pct, cluster_filter, search_text,
                   filtered_df, detail_df>>
    /\ UNCHANGED <<page, cache, reads, viewVars, methVars, fcVars>>

\* page 3 lines 94-139: the mean and the median table of the Methodology
\* page, grouped on the label column as loaded (strings, no Categorical)
MethodologyTables ==
    /\ pc = "loaded"
    /\ page = "methodology"
    /\ LET feats == ColsIn(cluster_features, df)
       IN  IF feats = <<>>
           THEN /\ pc' = "done"
                /\ UNCHANGED <<err, methVars>>
           ELSE IF ~HasCol(df, "cluster_label")
           THEN /\ Raise("KeyError")
                /\ UNCHANGED methVars
           ELSE /\ meth_mean' = Reindex(GroupMean(df, KeysIn(SortedLabels, df), feats, 1000),
                                        cluster_order, feats)
                /\ meth_median' = Reindex(GroupMedian(df, KeysIn(SortedLabels, df), feats),
                                          cluster_order, feats)
                /\ pc' = "done"
                /\ UNCHANGED err
    /\ UNCHANGED <<file, df, total_stores, cluster_count, cluster_pct,
                   at_risk_count, at_risk_pct, cluster_filter, search_text,
                   filtered_df, detail_df, shown, page, cache, reads,
                   viewVars, fcVars>>

\* the user opens the other page of the two that load the file: a new run of
\* that page's script in the same process
Navigate ==
    /\ pc \in {"done", "crashed"}
    /\ page' = IF page = "closure" THEN "methodology" ELSE "closure"
    /\ pc' = "start"
    /\ err' = NoError
    /\ df' = EmptyTable
    /\ total_stores' = 0
    /\ cluster_count' = NoCount
    /\ cluster_pct' = [c \in Categories |-> NoPct]
    /\ at_risk_count' = 0
    /\ at_risk_pct' = NoPct
    /\ cluster_filter' = "All"
    /\ search_text' = <<>>
    /\ filtered_df' = EmptyTable
    /\ detail_df' = EmptyTable
    /\ shown' = 0
    /\ cluster_mean' = NoTable
    /\ map_view' = NoView
    /\ meth_mean' = NoTable
    /\ meth_median' = NoTable
    /\ UNCHANGED <<file, cache, reads, fcVars>>

\* a widget interaction or a reload runs the script again from the top
Rerun ==
    /\ pc \in {"done", "crashed"}
    /\ pc' = "start"
    /\ err' = NoError
    /\ df' = EmptyTable
    /\ total_stores' = 0
    /\ cluster_count' = NoCount
    /\ cluster_pct' = [c \in Categories |-> NoPct]
    /\ at_risk_count' = 0
    /\ at_risk_pct' = NoPct
    /\ cluster_filter' = "All"
    /\ search_text' = <<>>
    /\ filtered_df' = EmptyTable
    /\ detail_df' = EmptyTable
    /\ shown' = 0
    /\ cluster_mean' = NoTable
    /\ map_view' = NoView
    /\ meth_mean' = NoTable
    /\ meth_median' = NoTable
    /\ UNCHANGED file
    /\ UNCHANGED <<page, cache, reads, fcVars>>

Next ==
    \/ Load
    \/ Categorize
    \/ Metrics
    \/ Overview
    \/ MapTab
    \/ ClusterFilter
    \/ Search
    \/ Show
    \/ Rerun

Spec == Init /\ [][Next]_vars

\* ------------------------------------------------- renders over a changing file
\* the files of the runs that exercise the cache
CacheLabelFiles ==
    {[readable |-> TRUE, header |-> <<"City", " Cluster_Label">>, rows |-> r] :
        r \in SeqsUpTo({<<"a", "n">>} \X {"Redundant", "Closed"}, MaxRows)}

CacheClusterFiles ==
    {[readable |-> TRUE, header |-> <<"City", "CLUSTER ">>, rows |-> r] :
        r \in SeqsUpTo({<<"a", "n">>} \X {0, 7}, MaxRows)}

\* closure_strategy.csv is replaced, edited or removed between two runs.
\* Only load_data reads the file, so a change during a run is a change before
\* or after it.
FileChanges ==
    /\ pc \in {"done", "crashed"}
    /\ \/ file' \in UnreadableFiles
       \/ file' \in CacheLabelFiles
       \/ file' \in CacheClusterFiles
    /\ UNCHANGED <<pc, err, df, total_stores, cluster_count, cluster_pct,
                   at_risk_count, at_risk_pct, cluster_filter, search_text,
                   filtered_df, detail_df, shown, page, cache, reads,
                   viewVars, methVars, fcVars>>

InitCache ==
    /\ \/ file \in UnreadableFiles
       \/ file \in CacheLabelFiles
       \/ file \in CacheClusterFiles
    /\ page = "closure"
    /\ cache = NoCache
    /\ reads = 0
    /\ Fresh
    /\ FcIdle

NextCache ==
    \/ Load
    \/ Categorize
    \/ Metrics
    \/ Overview
    \/ MapTab
    \/ ClusterFilter
    \/ Search
    \/ Show
    \/ Rerun
    \/ FileChanges
    \/ Navigate
    \/ MethodologyTables

SpecCache == InitCache /\ [][NextCache]_vars

\* --------------------------------------- files with feature and location columns
\* the columns the pages treat as optional, in file order
optional_cols ==
    <<"latitude", "longitude", "address", "city", "state",
      "nearest_neighbor_miles", "has_next_gen", "is_flagship",
      "num_omni_features", "stores_within_3_miles", "stores_within_6_miles">>

\* which optional columns a file has: all, none, only the two coordinates,
\* everything but the coordinates, all but one of address, has_next_gen and
\* num_omni_features
PresentSets ==
    {SeqRange(optional_cols), {}, {"latitude", "longitude"},
     SeqRange(optional_cols) \ {"latitude", "longitude"}}
    \cup {SeqRange(optional_cols) \ {c} :
             c \in {"address", "has_next_gen", "num_omni_features"}}

RECURSIVE Keep(_, _)
Keep(names, S) ==
    IF names = <<>> THEN <<>>
    ELSE (IF Head(names) \in S THEN <<Head(names)>> ELSE <<>>) \o Keep(Tail(names), S)

FeatHeaders == {<<" Cluster_Label">> \o Keep(optional_cols, S) : S \in PresentSets}

FeatLabels == {"Redundant", "Best stores", NaN}

\* the feature values of a store: next-gen flag, flagship flag, omni count
Profiles ==
    {[hng |-> 0, flag |-> 0, omni |-> 0],
     [hng |-> 1, flag |-> 0, omni |-> 2],
     [hng |-> 0, flag |-> 1, omni |-> 1]}

CellOf(col, label, p) ==
    CASE col = " Cluster_Label" -> label
      [] col = "latitude" -> 40
      [] col = "longitude" -> -98
      [] col = "address" -> <<"1", "N">>
      [] col = "city" -> <<"a", "n">>
      [] col = "state" -> <<"N", "a">>
      [] col = "nearest_neighbor_miles" -> 1 + p.omni
      [] col = "has_next_gen" -> p.hng
      [] col = "is_flagship" -> p.flag
      [] col = "num_omni_features" -> p.omni
      [] col = "stores_within_3_miles" -> p.flag
      [] col = "stores_within_6_miles" -> p.flag + p.hng

FeatFiles(h) ==
    {[readable |-> TRUE, header |-> h, rows |-> r] :
        r \in SeqsUpTo({[i \in 1..Len(h) |-> CellOf(h[i], l, p)] :
                           l \in FeatLabels, p \in Profiles}, MaxFeatRows)}

\* a new process opening the Store Closure or the Methodology page on such a
\* file
InitOverview ==
    /\ \E h \in FeatHeaders : file \in FeatFiles(h)
    /\ page \in {"closure", "methodology"}
    /\ cache = NoCache
    /\ reads = 0
    /\ Fresh
    /\ FcIdle

NextOverview ==
    \/ Load
    \/ Categorize
    \/ Metrics
    \/ Overview
    \/ MapTab
    \/ ClusterFilterFirst
    \/ Search
    \/ Show
    \/ MethodologyTables

SpecOverview == InitOverview /\ [][NextOverview]_vars

\* ------------------------------------------------------------ Forecast page
\* the values of a series, in the unit of the series
SeriesValues == {-1, 0, 2}

\* sample_yoy inputs in units of 0.0001; -1268 is the Q4 2022 sample
SampleInputs == {-1276, -1268, -1064, 0, 361, 1479}

\* line 79: the coefficients 0.0234 and 0.9533 in units of 0.0001
intercept == 234

slope == 9533

\* line 100 in units of 0.0001, line 34 and page 3's Results table in
\* hundredths of a percent
q4_regression_forecast == -974

metric_forecast == -974

results_table_forecast == -974

RECURSIVE SumSquares(_, _, _)
\* the sum of (pred[i] - true[i]) ** 2 over i in 1..k
SumSquares(pred, true, k) ==
    IF k = 0 THEN 0
    ELSE (pred[k] - true[k]) * (pred[k] - true[k]) + SumSquares(pred, true, k - 1)

\* lines 72-73: math.sqrt(((pred - true) ** 2).mean()).  The subtraction
\* aligns the two Series on their index and gives NaN where one has no entry,
\* mean() skips NaN and is NaN when nothing is left, math.sqrt(nan) is nan.
\* The number returned is sqrt(sum / n).
rmse(pred, true) ==
    LET k == IF Len(pred) < Len(true) THEN Len(pred) ELSE Len(true)
    IN  IF k = 0 THEN [kind |-> "nan"]
        ELSE [kind |-> "number", sum |-> SumSquares(pred, true, k), n |-> k]

\* line 79: 0.0234 + 0.9533 * sample_yoy, in units of 0.00000001
predictFromModel(x) == intercept * 10000 + slope * x

InitForecast ==
    /\ file \in UnreadableFiles
    /\ page = "forecast"
    /\ cache = NoCache
    /\ reads = 0
    /\ Fresh
    /\ rm_pred \in SeqsUpTo(SeriesValues, MaxSeriesLen)
    /\ rm_true \in SeqsUpTo(SeriesValues, MaxSeriesLen)
    /\ rm_out = [kind |-> "none"]
    /\ sample_yoy \in SampleInputs
    /\ pred_from_model = 0

\* lines 72-80: rmse applied to two series
CallRmse ==
    /\ page = "forecast"
    /\ pc = "start"
    /\ rm_out' = rmse(rm_pred, rm_true)
    /\ pc' = "rmse"
    /\ UNCHANGED <<file, err, df, total_stores, cluster_count, cluster_pct,
                   at_risk_count, at_risk_pct, cluster_filter, search_text,
                   filtered_df, detail_df, shown, page, cache, reads,
                   viewVars, methVars, rm_pred, rm_true, sample_yoy,
                   pred_from_model>>

\* line 79: the linear model applied to a sample value
Predict ==
    /\ page = "forecast"
    /\ pc = "rmse"
    /\ pred_from_model' = predictFromModel(sample_yoy)
    /\ pc' = "done"
    /\ UNCHANGED <<file, err, df, total_stores, cluster_count, cluster_pct,
                   at_risk_count, at_risk_pct, cluster_filter, search_text,
                   filtered_df, detail_df, shown, page, cache, reads,
                   viewVars, methVars, rm_pred, rm_true, rm_out, sample_yoy>>

NextForecast ==
    \/ CallRmse
    \/ Predict

SpecForecast == InitForecast /\ [][NextForecast]_vars

\* ------------------------------------------------------------------ claims
AfterMetrics == pc \in {"metrics", "overview", "map", "filtered", "searched", "done"}

AfterSearch == pc \in {"searched", "done"}

Label(t, i) == Cell(t, t.rows[i], "cluster_label")

HasLabelSource == file.readable /\ Len(file.header) = 2

\* C1: for every non-empty loaded table the four per-cluster counts sum to
\* total_stores, the number of rows.
C1_CountsSumToTotal ==
    (AfterMetrics /\ total_stores > 0)
        => SumLoc(cluster_order, cluster_count) = total_stores

\* C2: the at-risk count is exactly the Redundant count plus the Weaker Store
\* count, which is the number of rows labelled Redundant or Weaker Store; rows
\* of other categories and rows without a label do not contribute.
C2_AtRiskIsRedundantPlusWeaker ==
    AfterMetrics =>
        /\ at_risk_count = cluster_count["Redundant"] + cluster_count["Weaker Store"]
        /\ at_risk_count =
              Cardinality({i \in 1..Len(df.rows) :
                              Label(df, i) \in {"Redundant", "Weaker Store"}})

C2_Witness ==
    /\ pc = "done"
    /\ at_risk_count = 1
    /\ total_stores = 2
    /\ \E i \in 1..Len(df.rows) : Label(df, i) = NaN

\* the mask the search would produce if the text were a literal, lower-cased
\* substring
LiteralMask(t, text) ==
    [i \in 1..Len(t.rows) |->
        \E k \in 1..Len(t.columns) :
            Contains(LowerStr(StrCell(t.columns[k], t.rows[i][k])), LowerStr(text))]

\* C3: for every non-empty search text the search keeps exactly the rows of
\* which some column's lower-cased string form contains the lower-cased text
\* as a literal substring (and so never fails on the text when there are
\* rows to search).
C3_SearchIsLiteralSubstring ==
    /\ err = "re.error" => filtered_df.rows = <<>>
    /\ (AfterSearch /\ search_text # <<>>)
          => detail_df.rows = SelectRows(filtered_df.rows,
                                         LiteralMask(filtered_df, search_text))

\* C4: searching the result of a search again with the same text returns the
\* same rows in the same order.
C4_SearchIdempotent ==
    AfterSearch => filterBySearch(detail_df, search_text) = detail_df

C4_Witness ==
    /\ pc = "done"
    /\ search_text # <<>>
    /\ Len(detail_df.rows) = 1
    /\ Len(filtered_df.rows) = 2

\* C5: with an empty search text the search returns the cluster-filtered rows
\* unchanged, whatever the cluster choice was.
C5_EmptySearchIsNoop ==
    (AfterSearch /\ search_text = <<>>) => detail_df = filtered_df

C5_Witness ==
    /\ pc = "done"
    /\ search_text = <<>>
    /\ cluster_filter # "All"
    /\ Len(detail_df.rows) = 1
    /\ Len(df.rows) = 2

\* the rows of df that pass both the cluster choice and the text search
Intersection ==
    SelectRows(df.rows,
               [i \in 1..Len(df.rows) |->
                   /\ cluster_filter = "All" \/ Label(df, i) = cluster_filter
                   /\ search_text = <<>> \/ RowMatches(df, df.rows[i], search_text)])

\* C6: the Store Details result is the intersection of the cluster filter
\* and the text search over the loaded rows, and "Showing N stores" reports
\* its size.
C6_DetailsIsIntersection ==
    pc = "done" =>
        /\ detail_df.rows = Intersection
        /\ shown = Len(Intersection)

C6_Witness ==
    /\ pc = "done"
    /\ cluster_filter # "All"
    /\ search_text # <<>>
    /\ shown = 1
    /\ Len(filtered_df.rows) = 2
    /\ Len(filterBySearch(df, search_text).rows) = 1

\* the label the claim assigns to a cluster id
ClaimedLabel(id) ==
    CASE id = 0 -> "Middle Tier"
      [] id = 1 -> "Weaker Store"
      [] id = 2 -> "Best stores"
      [] id = 3 -> "Redundant"
      [] OTHER  -> NaN

DerivedLabelsAsClaimed ==
    (pc = "loaded" /\ HasCol(df, "cluster"))
        => \A i \in 1..Len(df.rows) :
              Label(df, i) = ClaimedLabel(Cell(df, df.rows[i], "cluster"))

\* C7 as stated: right after load_data every label is one of the four
\* categories or absent, and labels derived from cluster ids follow the
\* fixed table.
C7_LoadedLabelsInTaxonomy ==
    /\ (pc = "loaded" /\ HasCol(df, "cluster_label"))
          => \A i \in 1..Len(df.rows) : Label(df, i) \in Categories \cup {NaN}
    /\ DerivedLabelsAsClaimed

\* C7 amended: labels derived by load_data from cluster ids follow the fixed
\* table (other ids give an absent label); a cluster_label column of the
\* file is returned as it is; every label is one of the four categories or
\* absent once the Store Closure page has made the column categorical.
C7_LabelsInTaxonomyAfterCategorical ==
    /\ DerivedLabelsAsClaimed
    /\ (pc = "loaded" /\ ~HasCol(df, "cluster") /\ HasCol(df, "cluster_label"))
          => df.rows = file.rows
    /\ (pc \in {"categorized", "metrics", "overview", "map", "filtered", "searched", "done"})
          => \A i \in 1..Len(df.rows) : Label(df, i) \in Categories \cup {NaN}

C7_Witness ==
    /\ pc = "loaded"
    /\ HasCol(df, "cluster")
    /\ \E i \in 1..Len(df.rows) : Label(df, i) = NaN
    /\ \E i \in 1..Len(df.rows) : Label(df, i) = "Middle Tier"

\* C8: a file with neither a cluster_label nor a cluster column loads with
\* all its rows, and the page then runs with every row unlabelled.
C8_NoLabelColumnsRendersUnlabelled ==
    (file.readable /\ file.header = <<"City">>) =>
        /\ pc # "crashed"
        /\ pc # "start" => Len(df.rows) = Len(file.rows)
        /\ AfterMetrics => cluster_count = NoCount

\* C9: with zero rows the percentages are not produced: the metrics step
\* fails with EmptyDataset.
C9_EmptyTableRaisesEmptyDataset ==
    (HasLabelSource /\ file.rows = <<>> /\ pc \notin {"start", "loaded", "categorized"})
        => (pc = "crashed" /\ err = "EmptyDataset")

\* C10: an unreadable file makes the load fail with DataUnavailable, shown as
\* a warning state and not as an exception that ends the run.
C10_UnreadableFileIsWarning ==
    (~file.readable /\ pc # "start")
        => (pc = "warning" /\ err = "DataUnavailable")

RECURSIVE IsSubseq(_, _)
\* a is b with some entries left out, order kept
IsSubseq(a, b) ==
    IF a = <<>> THEN TRUE
    ELSE IF b = <<>> THEN FALSE
    ELSE IF Head(a) = Head(b)
         THEN IsSubseq(Tail(a), Tail(b)) \/ IsSubseq(a, Tail(b))
         ELSE IsSubseq(a, Tail(b))

\* C17: a row without a label is shown in Store Details only under the
\* 'All' choice; under a category choice every shown row has that label; every
\* result is a sub-sequence of the loaded rows in their order.
C17_UnlabelledOnlyUnderAll ==
    pc = "done" =>
        /\ IsSubseq(detail_df.rows, df.rows)
        /\ IsSubseq(filtered_df.rows, df.rows)
        /\ cluster_filter # "All" =>
              \A i \in 1..Len(detail_df.rows) : Label(detail_df, i) = cluster_filter
        /\ (\E i \in 1..Len(detail_df.rows) : Label(detail_df, i) = NaN) =>
              cluster_filter = "All"

\* under 'All' a row whose file label is outside the categories is shown
\* next to a labelled one: no category choice shows it
C17_Witness ==
    /\ pc = "done"
    /\ cluster_filter = "All"
    /\ shown = 2
    /\ Label(detail_df, 1) = NaN
    /\ Label(detail_df, 2) = "Redundant"
    /\ file.rows[1][2] = "Closed"

C12_RmseRejectsBadSeries ==
    pc \in {"rmse", "done"} =>
        /\ Len(rm_pred) # Len(rm_true) => rm_out.kind = "LengthMismatch"
        /\ (rm_pred = <<>> /\ rm_true = <<>>) => rm_out.kind = "InsufficientData"
        /\ rm_out.kind = "number" =>
              (Len(rm_pred) = Len(rm_true) /\ rm_pred # <<>>)

\* C13: the model at the Q4 2022 sample -0.1268 gives -0.0975 at four
\* decimals, and that is the regression-based forecast shown by the metric,
\* the plotted point and the Results table.
C13_ModelValueIsShownForecast ==
    (page = "forecast" /\ pc = "done" /\ sample_yoy = -1268) =>
        /\ RoundHalfEven(pred_from_model, 10000) = -975
        /\ q4_regression_forecast = RoundHalfEven(pred_from_model, 10000)
        /\ metric_forecast = RoundHalfEven(pred_from_model, 10000)
        /\ results_table_forecast = RoundHalfEven(pred_from_model, 10000)

\* the rows of the loaded table that carry label c
InCat(c) == {i \in 1..Len(df.rows) : Label(df, i) = c}

\* the rows of category c whose column f is greater than zero
Positive(c, f) == {i \in InCat(c) : Cell(df, df.rows[i], f) > 0}

\* the fraction k / n of a category rounded to 1 / scale and shown in units of
\* 1 / unit; absent for a category without rows
Share(k, n, scale, unit) ==
    IF n = 0 THEN NaNVal ELSE Val(RoundHalfEven(k * scale, n), unit)

\* two shown numbers are the same number
EqVal(a, b) == a.nan = b.nan /\ (a.nan \/ a.num * b.den = b.num * a.den)

CanonicalOrder == <<"Best stores", "Middle Tier", "Redundant", "Weaker Store">>

AfterMap == pc \in {"map", "filtered", "searched", "done"} /\ page = "closure"

\* C14: with the label column present, no run stops on a missing optional
\* column (no KeyError), and once the map tab has rendered without latitude or
\* longitude it shows the 'Geographic data not available' warning.
C14_MissingOptionalNeverAborts ==
    /\ err # "KeyError"
    /\ (AfterMap /\ ~(HasCol(df, "latitude") /\ HasCol(df, "longitude"))) =>
          map_view.kind = "warning"

\* C15 as stated: on the Store Closure overview (means rounded to 2 decimals)
\* and in the Methodology mean table (rounded to 3 decimals) alike,
\* has_next_gen and is_flagship show the category's mean fraction times 100.
C15_BooleansArePercentEverywhere ==
    \A f \in {"has_next_gen", "is_flagship"} : \A i \in 1..Len(CanonicalOrder) :
        LET c == CanonicalOrder[i]
            k == Cardinality(Positive(c, f))
            n == Cardinality(InCat(c))
        IN  /\ (cluster_mean # NoTable /\ HasCol(df, f)) =>
                  EqVal(cluster_mean.rows[i][f], Share(k, n, 100, 1))
            /\ (meth_mean # NoTable /\ HasCol(df, f)) =>
                  EqVal(meth_mean.rows[i][f], Share(k, n, 1000, 10))

\* C15 as the code has it: only the Store Closure overview rescales; it shows
\* the 2-decimal mean fraction of has_next_gen and is_flagship times 100, and
\* the Methodology mean table shows the 3-decimal mean fraction itself.
C15_PercentOnOverviewFractionOnMethodology ==
    \A f \in {"has_next_gen", "is_flagship"} : \A i \in 1..Len(CanonicalOrder) :
        LET c == CanonicalOrder[i]
            k == Cardinality(Positive(c, f))
            n == Cardinality(InCat(c))
        IN  /\ (cluster_mean # NoTable /\ HasCol(df, f)) =>
                  EqVal(cluster_mean.rows[i][f], Share(k, n, 100, 1))
            /\ (meth_mean # NoTable /\ HasCol(df, f)) =>
                  EqVal(meth_mean.rows[i][f], Share(k, n, 1000, 1000))

\* the Methodology mean table showing 0.333 for a category where one store of
\* three is next-gen
C15_Witness ==
    /\ page = "methodology"
    /\ pc = "done"
    /\ HasCol(df, "has_next_gen")
    /\ Cardinality(InCat("Redundant")) = 3
    /\ Cardinality(Positive("Redundant", "has_next_gen")) = 1
    /\ meth_mean.index = CanonicalOrder
    /\ meth_mean.rows[3]["has_next_gen"] = Val(333, 1000)

\* C16: on the Store Closure overview the omni value of a category is 100
\* times the share of its rows with num_omni_features > 0, between 0 and 100,
\* absent for a category without rows, whatever the mean of the count is; the
\* table's rows are in the canonical category order.
C16_OmniIsShareOfPositiveRows ==
    (cluster_mean # NoTable /\ HasCol(df, "num_omni_features")) =>
        /\ cluster_mean.index = CanonicalOrder
        /\ \A i \in 1..Len(CanonicalOrder) :
              LET c == CanonicalOrder[i]
                  k == Cardinality(Positive(c, "num_omni_features"))
                  n == Cardinality(InCat(c))
                  v == cluster_mean.rows[i]["num_omni_features"]
              IN  /\ v.nan <=> n = 0
                  /\ ~v.nan => /\ v.num * n = 100 * k * v.den
                               /\ 0 <= v.num
                               /\ v.num <= 100 * v.den

\* two Redundant stores with omni counts 2 and 0 (mean 1.0) show 50, next to
\* the categories without rows showing nothing
C16_Witness ==
    /\ page = "closure"
    /\ pc = "overview"
    /\ HasCol(df, "num_omni_features")
    /\ cluster_mean.index = CanonicalOrder
    /\ Cardinality(InCat("Redundant")) = 2
    /\ \E i \in InCat("Redundant") : Cell(df, df.rows[i], "num_omni_features") = 2
    /\ \E i \in InCat("Redundant") : Cell(df, df.rows[i], "num_omni_features") = 0
    /\ cluster_mean.rows[3]["num_omni_features"] = Val(100, 2)
    /\ cluster_mean.rows[2]["num_omni_features"].nan

====
